---- MODULE Spec2Model ----
(***************************************************************************)
(* Template compilation and view bootstrap of branjs.                      *)
(*                                                                         *)
(*   Compiler  src/src/view/compiler/compiler.ts                           *)
(*   View      src/unnamed/part_000  (view.ts)                             *)
(*                                                                         *)
(* Tree, Parser, ComponentFactory, ComponentsRegistry, ViewRef and the     *)
(* assertions are collaborators whose code is outside src/; they follow    *)
(* the contracts of spec.md (sections 4.1, 4.2, 4.4, 4.6, 6, 7).           *)
(*                                                                         *)
(* Objects are identified as follows: a ViewRef by its position in         *)
(* viewRefs (creation order), a TreeNode by its index in the Tree that     *)
(* holds it, a display element by a pair <<view, node>>.                   *)
(***************************************************************************)
EXTENDS Integers, Sequences, FiniteSets, TLC

VARIABLES
  compilerInstance,  \* Compiler._instance
  viewInstance,      \* View._instance
  entryComponent,    \* what ComponentsRegistry.getEntryComponent() returns
  parserMarksHost,   \* whether Parser records the host element's selector on the AST root
  metadata,          \* per component type: what the factory found when it first built it
  pc,                \* position of View.bootstrap
  error,             \* the error that left bootstrap, if any
  viewRefs,          \* every ViewRef object constructed so far
  viewRefTree,       \* the Tree<ViewRef> shared by the _compileViewRef calls
  stack,             \* call stack of _compileViewRef
  viewViewRefTree,   \* View._viewRefTree
  initQueue,         \* nodes traverseBF has still to visit
  updateStack,       \* call stack of ViewRef.update
  factoryCalls,      \* arguments of every ComponentFactory.create call
  passes,            \* render passes started so far
  log                \* history of the lifecycle events

vars == <<compilerInstance, viewInstance, entryComponent, parserMarksHost, metadata,
          pc, error, viewRefs, viewRefTree, stack, viewViewRefTree, initQueue,
          updateStack, factoryCalls, passes, log>>

(***************************************************************************)
(* Bounds                                                                  *)
(***************************************************************************)
\* No more than this many ViewRefs are constructed in one compilation.
MaxViewRefs == 7
\* No more than this many render passes are started.
MaxRenderPasses == 2

(***************************************************************************)
(* Values                                                                  *)
(***************************************************************************)
Undefined == "undefined"
NoSelector == ""
NoViewRef == 0
NoTree == <<>>
NoInstance == [parser |-> Undefined, componentFactory |-> Undefined,
               componentsRegistry |-> Undefined, bindingBuilder |-> Undefined]
NoView == [rootInjector |-> Undefined, componentsRegistry |-> Undefined]
NoElement == <<0, 0>>
AppHost == <<0, 1>>

ComponentTypes == {"App", "Item", "Leaf"}

\* @Component({ selector }) of each component type.
SelectorOf(type) ==
  CASE type = "App" -> "app"
    [] type = "Item" -> "item"
    [] type = "Leaf" -> "leaf"
    [] OTHER -> NoSelector

\* ComponentsRegistry.getBySelector: Type | undefined.
getBySelector(selector) ==
  IF \E t \in ComponentTypes : SelectorOf(t) = selector
  THEN CHOOSE t \in ComponentTypes : SelectorOf(t) = selector
  ELSE Undefined

(***************************************************************************)
(* Tree / TreeNode: a sequence of nodes, each with its data, its parent's  *)
(* index (0 for the root) and the indices of its children in insertion     *)
(* order.                                                                  *)
(***************************************************************************)
NewTree(data) == << [data |-> data, parent |-> 0, children |-> <<>>] >>

TreeHas(tree, parentNode) == parentNode \in 1..Len(tree)

\* Tree.add: the new node becomes the last child of parentNode.
TreeAdd(tree, data, parentNode) ==
  LET n == Len(tree) + 1
  IN  [i \in 1..n |->
         IF i = n THEN [data |-> data, parent |-> parentNode, children |-> <<>>]
         ELSE IF i = parentNode
              THEN [tree[i] EXCEPT !.children = Append(@, n)]
              ELSE tree[i]]

\* The node of the tree that holds data, 0 when there is none.
TreeFind(tree, data) ==
  IF \E i \in 1..Len(tree) : tree[i].data = data
  THEN CHOOSE i \in 1..Len(tree) : tree[i].data = data
  ELSE 0

isRoot(tree, node) == tree[node].parent = 0

RECURSIVE DFFrom(_, _)
RECURSIVE DFEach(_, _)
DFFrom(tree, node) == <<node>> \o DFEach(tree, tree[node].children)
DFEach(tree, nodes) ==
  IF nodes = <<>> THEN <<>>
  ELSE DFFrom(tree, Head(nodes)) \o DFEach(tree, Tail(nodes))

\* Tree.traverseDF: the order of the visits, depth-first pre-order.
traverseDF(tree) == IF tree = NoTree THEN <<>> ELSE DFFrom(tree, 1)

RECURSIVE BFFrom(_, _)
BFFrom(tree, queue) ==
  IF queue = <<>> THEN <<>>
  ELSE <<Head(queue)>> \o BFFrom(tree, Tail(queue) \o tree[Head(queue)].children)

\* Tree.traverseBF: the order of the visits, breadth-first from the root.
traverseBF(tree) == IF tree = NoTree THEN <<>> ELSE BFFrom(tree, <<1>>)

RECURSIVE Depth(_, _)
Depth(tree, node) == IF tree[node].parent = 0 THEN 0 ELSE 1 + Depth(tree, tree[node].parent)

RECURSIVE IsAncestor(_, _, _)
\* a is a proper ancestor of node d
IsAncestor(tree, a, d) ==
  /\ tree[d].parent # 0
  /\ \/ tree[d].parent = a
     \/ IsAncestor(tree, a, tree[d].parent)

(***************************************************************************)
(* Templates and the Parser                                                *)
(***************************************************************************)
\* An element of a template: the component selector it matches and the raw
\* bindings declared on it.
Element(componentSelector, bindings) ==
  [componentSelector |-> componentSelector, bindings |-> bindings]

\* The templates components are written with.  Element i hangs under AST node
\* shape[i], AST node 1 being the host element.  "missing" is a selector the
\* registry does not know.
Templates ==
  { [shape |-> <<>>,     elements |-> <<>>],
    [shape |-> <<1>>,    elements |-> <<Element(NoSelector, <<"text">>)>>],
    [shape |-> <<1>>,    elements |-> <<Element("item", <<>>)>>],
    [shape |-> <<1>>,    elements |-> <<Element("leaf", <<>>)>>],
    [shape |-> <<1>>,    elements |-> <<Element("missing", <<>>)>>],
    [shape |-> <<1, 1>>, elements |-> <<Element("item", <<>>), Element("leaf", <<>>)>>],
    [shape |-> <<1, 1>>, elements |-> <<Element("leaf", <<>>), Element("leaf", <<>>)>>],
    [shape |-> <<1, 1>>, elements |-> <<Element("item", <<"text">>), Element("item", <<>>)>>],
    [shape |-> <<1, 2>>, elements |-> <<Element("item", <<>>), Element("leaf", <<>>)>>],
    [shape |-> <<1, 2>>, elements |-> <<Element(NoSelector, <<>>), Element("leaf", <<"text">>)>>] }

RECURSIVE ParseFrom(_, _, _, _)
ParseFrom(template, viewId, i, ast) ==
  IF i > Len(template.shape) THEN ast
  ELSE ParseFrom(template, viewId, i + 1,
         TreeAdd(ast,
                 [element |-> <<viewId, i + 1>>,
                  componentSelector |-> template.elements[i].componentSelector,
                  bindings |-> template.elements[i].bindings],
                 template.shape[i]))

\* Parser.parse(template, host): the Template AST, rooted at the host element.
\* hostSelector is the selector the host element matches.
parse(template, host, hostSelector, viewId) ==
  ParseFrom(template, viewId, 1,
            NewTree([element |-> host,
                     componentSelector |-> IF parserMarksHost THEN hostSelector ELSE NoSelector,
                     bindings |-> <<>>]))

(***************************************************************************)
(* Compiler: _buildViewNode and _getViewNodes                              *)
(***************************************************************************)
\* BindingBuilder.build(astBinding, viewNode): a Binding owned by viewNode.
build(astBinding, element) == [source |-> astBinding, owner |-> element]

\* Compiler._buildViewNode
buildViewNode(astNode) ==
  [element |-> astNode.element,
   componentSelector |-> astNode.componentSelector,
   bindings |-> [i \in 1..Len(astNode.bindings) |-> build(astNode.bindings[i], astNode.element)],
   viewRef |-> NoViewRef]

RECURSIVE getViewNodes(_, _, _, _)
RECURSIVE getViewNodesEach(_, _, _, _)
\* Compiler._getViewNodes(astNode, parent, viewNodesTree)
getViewNodes(ast, astNode, parent, viewNodesTree) ==
  LET viewNode == buildViewNode(ast[astNode].data)
      tree == IF viewNodesTree = NoTree /\ parent = 0
              THEN NewTree(viewNode)
              ELSE TreeAdd(viewNodesTree, viewNode, parent)
  IN  getViewNodesEach(ast, ast[astNode].children, Len(tree), tree)
\* astNode.children.forEach(childAstNode => this._getViewNodes(childAstNode, viewNode, viewNodesTree))
getViewNodesEach(ast, children, viewNode, viewNodesTree) ==
  IF children = <<>> THEN viewNodesTree
  ELSE getViewNodesEach(ast, Tail(children), viewNode,
         getViewNodes(ast, Head(children), viewNode, viewNodesTree))

\* this._bindingBuilder.build is reached with no binding builder in the Compiler.
BuildsWithoutBuilder(ast) ==
  /\ compilerInstance.bindingBuilder = Undefined
  /\ \E i \in 1..Len(ast) : ast[i].data.bindings # <<>>

(***************************************************************************)
(* State                                                                   *)
(***************************************************************************)
NoTemplate == [shape |-> <<>>, elements |-> <<>>]
Unread == [read |-> FALSE, resolvable |-> TRUE, template |-> NoTemplate]
NoComponentRef == [type |-> Undefined, selector |-> NoSelector,
                   template |-> NoTemplate, hostElement |-> NoElement]

\* A call of _compileViewRef(component, host, viewRefTree, parentViewRef, hostViewNode).
Call(component, host, parentViewRef, hostViewNode) ==
  [component |-> component, host |-> host, parentViewRef |-> parentViewRef,
   hostViewNode |-> hostViewNode, componentRef |-> NoComponentRef,
   viewRef |-> NoViewRef, pos |-> 0, pc |-> "create"]

Top == stack[Len(stack)]
SetTop(frame) == [stack EXCEPT ![Len(stack)] = frame]
Pop == SubSeq(stack, 1, Len(stack) - 1)

Event(op, viewRef) == [op |-> op, viewRef |-> viewRef]

Init ==
  /\ compilerInstance = NoInstance
  /\ viewInstance = NoView
  /\ entryComponent \in {"App", Undefined}
  /\ parserMarksHost \in BOOLEAN
  /\ metadata = [t \in ComponentTypes |-> Unread]
  /\ pc = "idle"
  /\ error = "none"
  /\ viewRefs = <<>>
  /\ viewRefTree = NoTree
  /\ stack = <<>>
  /\ viewViewRefTree = NoTree
  /\ initQueue = <<>>
  /\ updateStack = <<>>
  /\ factoryCalls = <<>>
  /\ passes = 0
  /\ log = <<>>

\* An error raised inside compile is caught there and the tree built so far
\* is returned.
RaiseCaughtByCompile(e) ==
  /\ pc' = IF viewRefTree = NoTree THEN "error" ELSE "compile"
  /\ error' = e
  /\ stack' = <<>>

\* An error leaves _compileViewRef, compile and bootstrap: nothing catches it.
Raise(e) ==
  /\ pc' = "error"
  /\ error' = e
  /\ stack' = <<>>

(***************************************************************************)
(* Singletons                                                              *)
(***************************************************************************)
\* The collaborators a caller can hand to getInstance.
Parsers == {"parser", "parser2"}
ComponentFactories == {"componentFactory", "componentFactory2"}
ComponentsRegistries == {"componentsRegistry", "componentsRegistry2"}
BindingBuilders == {"bindingBuilder", "bindingBuilder2", Undefined}
RootInjectors == {"rootInjector", "rootInjector2"}

\* Compiler.getInstance constructing on every call
CompilerGetInstanceAnew(parser, componentFactory, componentsRegistry, bindingBuilder) ==
  /\ pc = "idle"
  /\ compilerInstance' =
       [parser |-> parser, componentFactory |-> componentFactory,
        componentsRegistry |-> componentsRegistry, bindingBuilder |-> bindingBuilder]
  /\ UNCHANGED <<viewInstance, entryComponent, parserMarksHost, metadata, pc, error,
                 viewRefs, viewRefTree, stack, viewViewRefTree, initQueue, updateStack,
                 factoryCalls, passes, log>>

\* Compiler.getInstance(parser, componentFactory, componentsRegistry, bindingBuilder)
CompilerGetInstanceOf(parser, componentFactory, componentsRegistry, bindingBuilder) ==
  /\ pc = "idle"
  /\ compilerInstance' =
       IF compilerInstance = NoInstance
       THEN [parser |-> parser, componentFactory |-> componentFactory,
             componentsRegistry |-> componentsRegistry, bindingBuilder |-> bindingBuilder]
       ELSE compilerInstance
  /\ UNCHANGED <<viewInstance, entryComponent, parserMarksHost, metadata, pc, error,
                 viewRefs, viewRefTree, stack, viewViewRefTree, initQueue, updateStack,
                 factoryCalls, passes, log>>

\* View.getInstance(rootInjector, componentsRegistry); the constructor takes
\* the process's ComponentFactory and Parser and asks for the Compiler with
\* three arguments, so bindingBuilder is undefined.
ViewGetInstanceOf(rootInjector, componentsRegistry) ==
  /\ pc = "idle"
  /\ viewInstance' =
       IF viewInstance = NoView
       THEN [rootInjector |-> rootInjector, componentsRegistry |-> componentsRegistry]
       ELSE viewInstance
  /\ compilerInstance' =
       IF viewInstance # NoView \/ compilerInstance # NoInstance
       THEN compilerInstance
       ELSE [parser |-> "parser", componentFactory |-> "componentFactory",
             componentsRegistry |-> componentsRegistry, bindingBuilder |-> Undefined]
  /\ UNCHANGED <<entryComponent, parserMarksHost, metadata, pc, error,
                 viewRefs, viewRefTree, stack, viewViewRefTree, initQueue, updateStack,
                 factoryCalls, passes, log>>

\* the calls of an application that hands over its own collaborators
CompilerGetInstance ==
  CompilerGetInstanceOf("parser", "componentFactory", "componentsRegistry", "bindingBuilder")

ViewGetInstance ==
  ViewGetInstanceOf("rootInjector", "componentsRegistry")

\* the calls of callers that hand over any collaborators
CompilerGetInstanceAny ==
  \E parser \in Parsers, componentFactory \in ComponentFactories,
     componentsRegistry \in ComponentsRegistries, bindingBuilder \in BindingBuilders :
    CompilerGetInstanceOf(parser, componentFactory, componentsRegistry, bindingBuilder)

ViewGetInstanceAny ==
  \E rootInjector \in RootInjectors, componentsRegistry \in ComponentsRegistries :
    ViewGetInstanceOf(rootInjector, componentsRegistry)

(***************************************************************************)
(* Compiler._compileViewRef, statement by statement                        *)
(***************************************************************************)
Compiling == pc = "compile" /\ stack # <<>>

\* line 78: this._componentFactory.create(component, host).  The factory reads
\* the component's metadata and resolves its dependencies; what it finds for a
\* component type is the same every time.
CompileCreate ==
  /\ Compiling
  /\ Top.pc = "create"
  /\ factoryCalls' = Append(factoryCalls, [component |-> Top.component, host |-> Top.host])
  /\ IF Top.component = Undefined
     THEN /\ Raise("TypeError")
          /\ UNCHANGED metadata
     ELSE \E resolvable \in BOOLEAN, template \in Templates :
            /\ metadata[Top.component].read =>
                 /\ resolvable = metadata[Top.component].resolvable
                 /\ template = metadata[Top.component].template
            /\ ~resolvable => template = NoTemplate
            /\ metadata' = [metadata EXCEPT ![Top.component] =
                              [read |-> TRUE, resolvable |-> resolvable, template |-> template]]
            /\ IF resolvable
               THEN /\ stack' = SetTop([Top EXCEPT
                                 !.componentRef = [type |-> Top.component,
                                                   selector |-> SelectorOf(Top.component),
                                                   template |-> template,
                                                   hostElement |-> Top.host],
                                 !.pc = "parse"])
                    /\ UNCHANGED <<pc, error>>
               ELSE Raise("DependencyResolutionError")
  /\ UNCHANGED <<compilerInstance, viewInstance, entryComponent, parserMarksHost,
                 viewRefs, viewRefTree, viewViewRefTree, initQueue, updateStack, passes, log>>

\* lines 91-99: parse the template, build the ViewNode tree, new ViewRef(componentRef, nodesTree).
\* lines 91-99 with the new ViewRef recorded on its hosting node at once
CompileParseRecording ==
  /\ Compiling
  /\ Top.pc = "parse"
  /\ Len(viewRefs) < MaxViewRefs
  /\ LET viewRef == Len(viewRefs) + 1
         ast == parse(Top.componentRef.template, Top.host, Top.componentRef.selector, viewRef)
         recorded == IF Top.hostViewNode # 0
                     THEN [viewRefs EXCEPT
                             ![Top.parentViewRef].nodesTree[Top.hostViewNode].data.viewRef = viewRef]
                     ELSE viewRefs
     IN  IF BuildsWithoutBuilder(ast)
         THEN /\ Raise("TypeError")
              /\ UNCHANGED <<viewRefs, log>>
         ELSE /\ viewRefs' = Append(recorded,
                    [componentRef |-> Top.componentRef,
                     nodesTree |-> getViewNodes(ast, 1, 0, NoTree),
                     renderHost |-> NoElement,
                     compiled |-> FALSE])
              /\ stack' = SetTop([Top EXCEPT !.viewRef = viewRef, !.pc = "graft"])
              /\ log' = Append(log, Event("new", viewRef))
              /\ UNCHANGED <<pc, error>>
  /\ UNCHANGED <<compilerInstance, viewInstance, entryComponent, parserMarksHost, metadata,
                 viewRefTree, viewViewRefTree, initQueue, updateStack, factoryCalls, passes>>

CompileParse ==
  /\ Compiling
  /\ Top.pc = "parse"
  /\ Len(viewRefs) < MaxViewRefs
  /\ LET viewRef == Len(viewRefs) + 1
         ast == parse(Top.componentRef.template, Top.host, Top.componentRef.selector, viewRef)
     IN  IF BuildsWithoutBuilder(ast)
         THEN /\ Raise("TypeError")
              /\ UNCHANGED <<viewRefs, log>>
         ELSE /\ viewRefs' = Append(viewRefs,
                    [componentRef |-> Top.componentRef,
                     nodesTree |-> getViewNodes(ast, 1, 0, NoTree),
                     renderHost |-> NoElement,
                     compiled |-> FALSE])
              /\ stack' = SetTop([Top EXCEPT !.viewRef = viewRef, !.pc = "graft"])
              /\ log' = Append(log, Event("new", viewRef))
              /\ UNCHANGED <<pc, error>>
  /\ UNCHANGED <<compilerInstance, viewInstance, entryComponent, parserMarksHost, metadata,
                 viewRefTree, viewViewRefTree, initQueue, updateStack, factoryCalls, passes>>

\* lines 101-113 with updateRenderHost(host) called for every ViewRef
CompileGraftHostingAll ==
  /\ Compiling
  /\ Top.pc = "graft"
  /\ viewRefTree' = IF viewRefTree = NoTree THEN NewTree(Top.viewRef)
                    ELSE TreeAdd(viewRefTree, Top.viewRef,
                                 TreeFind(viewRefTree, Top.parentViewRef))
  /\ viewRefs' = [viewRefs EXCEPT ![Top.viewRef].renderHost = Top.host]
  /\ stack' = SetTop([Top EXCEPT !.pc = "bind"])
  /\ log' = Append(log, Event("graft", Top.viewRef))
  /\ UNCHANGED <<compilerInstance, viewInstance, entryComponent, parserMarksHost, metadata,
                 pc, error, viewViewRefTree, initQueue, updateStack, factoryCalls, passes>>

\* lines 101-113: the first ViewRef becomes the root of a new tree and gets its
\* render host; any other is added under parentViewRef.
CompileGraft ==
  /\ Compiling
  /\ Top.pc = "graft"
  /\ IF viewRefTree = NoTree /\ Top.parentViewRef = NoViewRef
     THEN /\ viewRefTree' = NewTree(Top.viewRef)
          /\ viewRefs' = [viewRefs EXCEPT ![Top.viewRef].renderHost = Top.host]
          /\ stack' = SetTop([Top EXCEPT !.pc = "bind"])
          /\ log' = Append(log, Event("graft", Top.viewRef))
          /\ UNCHANGED <<pc, error>>
     ELSE IF viewRefTree # NoTree /\ TreeHas(viewRefTree, TreeFind(viewRefTree, Top.parentViewRef))
          THEN /\ viewRefTree' = TreeAdd(viewRefTree, Top.viewRef,
                                         TreeFind(viewRefTree, Top.parentViewRef))
               /\ stack' = SetTop([Top EXCEPT !.pc = "bind"])
               /\ log' = Append(log, Event("graft", Top.viewRef))
               /\ UNCHANGED <<pc, error, viewRefs>>
          ELSE /\ Raise(IF viewRefTree = NoTree THEN "TypeError" ELSE "StructuralError")
               /\ UNCHANGED <<viewRefTree, viewRefs, log>>
  /\ UNCHANGED <<compilerInstance, viewInstance, entryComponent, parserMarksHost, metadata,
                 viewViewRefTree, initQueue, updateStack, factoryCalls, passes>>

\* lines 122-124 with the assignment left out
CompileBindNoRecord ==
  /\ Compiling
  /\ Top.pc = "bind"
  /\ stack' = SetTop([Top EXCEPT !.pc = "traverse", !.pos = 1])
  /\ UNCHANGED <<compilerInstance, viewInstance, entryComponent, parserMarksHost, metadata,
                 pc, error, viewRefs, viewRefTree, viewViewRefTree, initQueue, updateStack,
                 factoryCalls, passes, log>>

\* lines 122-124 with line 151 moved ahead of the traversal
CompileBindMarkingFirst ==
  /\ Compiling
  /\ Top.pc = "bind"
  /\ viewRefs' = [viewRefs EXCEPT
        ![Top.viewRef].compiled = TRUE,
        ![IF Top.hostViewNode # 0 THEN Top.parentViewRef ELSE Top.viewRef]
            .nodesTree[IF Top.hostViewNode # 0 THEN Top.hostViewNode ELSE 1].data.viewRef =
              IF Top.hostViewNode # 0 THEN Top.viewRef ELSE @]
  /\ log' = log \o (IF Top.hostViewNode # 0 THEN <<Event("record", Top.viewRef)>> ELSE <<>>)
                \o <<Event("compiled", Top.viewRef)>>
  /\ stack' = SetTop([Top EXCEPT !.pc = "traverse", !.pos = 1])
  /\ UNCHANGED <<compilerInstance, viewInstance, entryComponent, parserMarksHost, metadata,
                 pc, error, viewRefTree, viewViewRefTree, initQueue, updateStack,
                 factoryCalls, passes>>

\* lines 122-124: hostViewNode.data.viewRef = viewRef
\* lines 122-124 with the hosting node looked up again by its selector
CompileBindBySelector ==
  /\ Compiling
  /\ Top.pc = "bind"
  /\ IF Top.hostViewNode # 0
     THEN /\ viewRefs' = [viewRefs EXCEPT ![Top.parentViewRef].nodesTree =
                [n \in 1..Len(@) |->
                   IF @[n].data.componentSelector = @[Top.hostViewNode].data.componentSelector
                   THEN [@[n] EXCEPT !.data.viewRef = Top.viewRef]
                   ELSE @[n]]]
          /\ log' = Append(log, Event("record", Top.viewRef))
     ELSE UNCHANGED <<viewRefs, log>>
  /\ stack' = SetTop([Top EXCEPT !.pc = "traverse", !.pos = 1])
  /\ UNCHANGED <<compilerInstance, viewInstance, entryComponent, parserMarksHost, metadata,
                 pc, error, viewRefTree, viewViewRefTree, initQueue, updateStack,
                 factoryCalls, passes>>

CompileBind ==
  /\ Compiling
  /\ Top.pc = "bind"
  /\ IF Top.hostViewNode # 0
     THEN /\ viewRefs' = [viewRefs EXCEPT
                ![Top.parentViewRef].nodesTree[Top.hostViewNode].data.viewRef = Top.viewRef]
          /\ log' = Append(log, Event("record", Top.viewRef))
     ELSE UNCHANGED <<viewRefs, log>>
  /\ stack' = SetTop([Top EXCEPT !.pc = "traverse", !.pos = 1])
  /\ UNCHANGED <<compilerInstance, viewInstance, entryComponent, parserMarksHost, metadata,
                 pc, error, viewRefTree, viewViewRefTree, initQueue, updateStack,
                 factoryCalls, passes>>

\* line 140: !viewNode.isRoot && viewNode.data.componentSelector
HostsComponentAlsoAtRoot(nodesTree, viewNode) ==
  nodesTree[viewNode].data.componentSelector # NoSelector

HostsComponent(nodesTree, viewNode) ==
  /\ ~isRoot(nodesTree, viewNode)
  /\ nodesTree[viewNode].data.componentSelector # NoSelector

\* lines 141-147: the arguments of the recursive call made for viewNode
ChildCallOnOwnHost(frame, nodesTree, viewNode) ==
  Call(getBySelector(nodesTree[viewNode].data.componentSelector),
       frame.host, frame.viewRef, viewNode)

\* lines 141-147 with the hosting node's own viewRef handed over as the parent
ChildCallUnderHostedViewRef(frame, nodesTree, viewNode) ==
  Call(getBySelector(nodesTree[viewNode].data.componentSelector),
       nodesTree[viewNode].data.element, nodesTree[viewNode].data.viewRef, viewNode)

ChildCall(frame, nodesTree, viewNode) ==
  Call(getBySelector(nodesTree[viewNode].data.componentSelector),
       nodesTree[viewNode].data.element, frame.viewRef, viewNode)

Reverse(seq) == [i \in 1..Len(seq) |-> seq[Len(seq) + 1 - i]]

\* line 139 with the nodes visited from the last to the first
VisitOrderReversed(nodesTree) == Reverse(traverseDF(nodesTree))

\* line 139: viewRef.nodesTree.traverseDF
VisitOrder(nodesTree) == traverseDF(nodesTree)

\* lines 139-149: one visit of viewRef.nodesTree.traverseDF
CompileVisit ==
  /\ Compiling
  /\ Top.pc = "traverse"
  /\ LET nodesTree == viewRefs[Top.viewRef].nodesTree
         order == VisitOrder(nodesTree)
     IN  /\ Top.pos <= Len(order)
         /\ IF HostsComponent(nodesTree, order[Top.pos])
            THEN /\ stack' = Append(SetTop([Top EXCEPT !.pos = @ + 1]),
                                    ChildCall(Top, nodesTree, order[Top.pos]))
                 /\ log' = IF ChildCall(Top, nodesTree, order[Top.pos]).component = Undefined
                           THEN Append(log, Event("miss", Top.viewRef))
                           ELSE log
            ELSE /\ stack' = SetTop([Top EXCEPT !.pos = @ + 1])
                 /\ UNCHANGED log
  /\ UNCHANGED <<compilerInstance, viewInstance, entryComponent, parserMarksHost, metadata,
                 pc, error, viewRefs, viewRefTree, viewViewRefTree, initQueue, updateStack,
                 factoryCalls, passes>>

\* line 151 left out
CompileMarkForgotten ==
  /\ Compiling
  /\ Top.pc = "traverse"
  /\ Top.pos > Len(traverseDF(viewRefs[Top.viewRef].nodesTree))
  /\ stack' = SetTop([Top EXCEPT !.pc = "return"])
  /\ UNCHANGED <<compilerInstance, viewInstance, entryComponent, parserMarksHost, metadata,
                 pc, error, viewRefs, viewRefTree, viewViewRefTree, initQueue, updateStack,
                 factoryCalls, passes, log>>

\* line 151: viewRef.compiled = true, once the traversal is over.  The history
\* records the flag's changes from false to true.
CompileMark ==
  /\ Compiling
  /\ Top.pc = "traverse"
  /\ Top.pos > Len(traverseDF(viewRefs[Top.viewRef].nodesTree))
  /\ viewRefs' = [viewRefs EXCEPT ![Top.viewRef].compiled = TRUE]
  /\ stack' = SetTop([Top EXCEPT !.pc = "return"])
  /\ log' = IF viewRefs[Top.viewRef].compiled THEN log
            ELSE Append(log, Event("compiled", Top.viewRef))
  /\ UNCHANGED <<compilerInstance, viewInstance, entryComponent, parserMarksHost, metadata,
                 pc, error, viewRefTree, viewViewRefTree, initQueue, updateStack,
                 factoryCalls, passes>>

\* line 153: return viewRefTree
CompileReturn ==
  /\ Compiling
  /\ Top.pc = "return"
  /\ stack' = Pop
  /\ UNCHANGED <<compilerInstance, viewInstance, entryComponent, parserMarksHost, metadata,
                 pc, error, viewRefs, viewRefTree, viewViewRefTree, initQueue, updateStack,
                 factoryCalls, passes, log>>

(***************************************************************************)
(* View.bootstrap                                                          *)
(***************************************************************************)
\* lines 65-69 with the entry component never asserted
BootstrapStartUnasserted ==
  /\ pc = "idle"
  /\ viewInstance # NoView
  /\ pc' = "compile"
  /\ stack' = <<Call(entryComponent, AppHost, NoViewRef, 0)>>
  /\ UNCHANGED <<compilerInstance, viewInstance, entryComponent, parserMarksHost, metadata,
                 error, viewRefs, viewRefTree, viewViewRefTree, initQueue, updateStack,
                 factoryCalls, passes, log>>

\* lines 65-69: getEntryComponent, assertEntryComponentRegistered, and the call
\* this._compiler.compile(entryComponent, appHost) (compile, line 65 of compiler.ts)
BootstrapStart ==
  /\ pc = "idle"
  /\ viewInstance # NoView
  /\ IF entryComponent = Undefined
     THEN Raise("EntryComponentNotRegisteredError")
     ELSE /\ pc' = "compile"
          /\ stack' = <<Call(entryComponent, AppHost, NoViewRef, 0)>>
          /\ UNCHANGED error
  /\ UNCHANGED <<compilerInstance, viewInstance, entryComponent, parserMarksHost, metadata,
                 viewRefs, viewRefTree, viewViewRefTree, initQueue, updateStack,
                 factoryCalls, passes, log>>

\* line 72 with a depth-first traversal
InitOrderDF(tree) == traverseDF(tree)

\* line 72: this._viewRefTree.traverseBF
InitOrder(tree) == traverseBF(tree)

\* line 69: this.viewRefTree = <what compile returned>; line 72: the traversal starts
BootstrapAssign ==
  /\ pc = "compile"
  /\ stack = <<>>
  /\ viewViewRefTree' = viewRefTree
  /\ initQueue' = InitOrder(viewRefTree)
  /\ pc' = "init"
  /\ UNCHANGED <<compilerInstance, viewInstance, entryComponent, parserMarksHost, metadata,
                 error, viewRefs, viewRefTree, stack, updateStack, factoryCalls, passes, log>>

\* lines 72-76: viewRef.init() on the next node of the traversal
BootstrapInit ==
  /\ pc = "init"
  /\ initQueue # <<>>
  /\ log' = Append(log, Event("init", viewViewRefTree[Head(initQueue)].data))
  /\ initQueue' = Tail(initQueue)
  /\ UNCHANGED <<compilerInstance, viewInstance, entryComponent, parserMarksHost, metadata,
                 pc, error, viewRefs, viewRefTree, stack, viewViewRefTree, updateStack,
                 factoryCalls, passes>>

\* line 78 reached before the traversal of lines 72-76 is over
BootstrapUpdateEarly ==
  /\ pc = "init"
  /\ Len(initQueue) <= 1
  /\ pc' = "update"
  /\ updateStack' = <<[viewRef |-> viewViewRefTree[1].data, pc |-> "bindings", pos |-> 0]>>
  /\ passes' = passes + 1
  /\ log' = log \o <<Event("pass", viewViewRefTree[1].data),
                      Event("update", viewViewRefTree[1].data)>>
  /\ UNCHANGED <<compilerInstance, viewInstance, entryComponent, parserMarksHost, metadata,
                 error, viewRefs, viewRefTree, stack, viewViewRefTree, initQueue,
                 factoryCalls>>

\* line 78 with update() called on the ViewRef added last instead of the root's
BootstrapUpdateLast ==
  /\ pc = "init"
  /\ initQueue = <<>>
  /\ pc' = "update"
  /\ updateStack' = <<[viewRef |-> viewViewRefTree[Len(viewViewRefTree)].data,
                       pc |-> "bindings", pos |-> 0]>>
  /\ passes' = passes + 1
  /\ log' = log \o <<Event("pass", viewViewRefTree[Len(viewViewRefTree)].data),
                      Event("update", viewViewRefTree[Len(viewViewRefTree)].data)>>
  /\ UNCHANGED <<compilerInstance, viewInstance, entryComponent, parserMarksHost, metadata,
                 error, viewRefs, viewRefTree, stack, viewViewRefTree, initQueue,
                 factoryCalls>>

\* line 78: this._viewRefTree.root.data.update()
BootstrapUpdate ==
  /\ pc = "init"
  /\ initQueue = <<>>
  /\ pc' = "update"
  /\ updateStack' = <<[viewRef |-> viewViewRefTree[1].data, pc |-> "bindings", pos |-> 0]>>
  /\ passes' = passes + 1
  /\ log' = log \o <<Event("pass", viewViewRefTree[1].data),
                      Event("update", viewViewRefTree[1].data)>>
  /\ UNCHANGED <<compilerInstance, viewInstance, entryComponent, parserMarksHost, metadata,
                 error, viewRefs, viewRefTree, stack, viewViewRefTree, initQueue,
                 factoryCalls>>

(***************************************************************************)
(* ViewRef.update (spec.md 4.6)                                            *)
(***************************************************************************)
Updating == pc = "update" /\ updateStack # <<>>
UTop == updateStack[Len(updateStack)]

\* every Binding of the view is evaluated and applied, the view is rendered
\* into its render host
UpdateBindings ==
  /\ Updating
  /\ UTop.pc = "bindings"
  /\ updateStack' = [updateStack EXCEPT ![Len(updateStack)] =
                       [UTop EXCEPT !.pc = "children", !.pos = 1]]
  /\ log' = Append(log, Event("bindings", UTop.viewRef))
  /\ UNCHANGED <<compilerInstance, viewInstance, entryComponent, parserMarksHost, metadata,
                 pc, error, viewRefs, viewRefTree, stack, viewViewRefTree, initQueue,
                 factoryCalls, passes>>

\* the child's update() entered with the parent's bindings still to apply
UpdateChildrenFirst ==
  /\ Updating
  /\ UTop.pc \in {"bindings", "children"}
  /\ LET nodesTree == viewRefs[UTop.viewRef].nodesTree
         order == traverseDF(nodesTree)
         at == IF UTop.pc = "bindings" THEN 1 ELSE UTop.pos
         child == nodesTree[order[at]].data.viewRef
     IN  /\ at <= Len(order)
         /\ IF child # NoViewRef
            THEN /\ viewRefs' = [viewRefs EXCEPT ![child].renderHost =
                                   nodesTree[order[at]].data.element]
                 /\ updateStack' =
                      Append([updateStack EXCEPT ![Len(updateStack)] =
                                [UTop EXCEPT !.pc = "children", !.pos = at + 1]],
                             [viewRef |-> child, pc |-> "bindings", pos |-> 0])
                 /\ log' = log \o <<Event("updateRenderHost", child), Event("update", child)>>
            ELSE /\ updateStack' = [updateStack EXCEPT ![Len(updateStack)] =
                                      [UTop EXCEPT !.pc = "children", !.pos = at + 1]]
                 /\ UNCHANGED <<viewRefs, log>>
  /\ UNCHANGED <<compilerInstance, viewInstance, entryComponent, parserMarksHost, metadata,
                 pc, error, viewRefTree, stack, viewViewRefTree, initQueue, factoryCalls, passes>>

\* for the next ViewNode: if it carries a child viewRef, updateRenderHost on
\* the child with the node's element, then the child's update()
UpdateChildren ==
  /\ Updating
  /\ UTop.pc = "children"
  /\ LET nodesTree == viewRefs[UTop.viewRef].nodesTree
         order == traverseDF(nodesTree)
         child == nodesTree[order[UTop.pos]].data.viewRef
     IN  /\ UTop.pos <= Len(order)
         /\ IF child # NoViewRef
            THEN /\ viewRefs' = [viewRefs EXCEPT ![child].renderHost =
                                   nodesTree[order[UTop.pos]].data.element]
                 /\ updateStack' =
                      Append([updateStack EXCEPT ![Len(updateStack)] =
                                [UTop EXCEPT !.pos = @ + 1]],
                             [viewRef |-> child, pc |-> "bindings", pos |-> 0])
                 /\ log' = log \o <<Event("updateRenderHost", child), Event("update", child)>>
            ELSE /\ updateStack' = [updateStack EXCEPT ![Len(updateStack)] =
                                      [UTop EXCEPT !.pos = @ + 1]]
                 /\ UNCHANGED <<viewRefs, log>>
  /\ UNCHANGED <<compilerInstance, viewInstance, entryComponent, parserMarksHost, metadata,
                 pc, error, viewRefTree, stack, viewViewRefTree, initQueue, factoryCalls, passes>>

\* update() of the view on top returns; the render pass ends with the root's
UpdateReturn ==
  /\ Updating
  /\ UTop.pc = "children"
  /\ UTop.pos > Len(traverseDF(viewRefs[UTop.viewRef].nodesTree))
  /\ updateStack' = SubSeq(updateStack, 1, Len(updateStack) - 1)
  /\ log' = Append(log, Event("updated", UTop.viewRef))
  /\ pc' = IF Len(updateStack) = 1 THEN "done" ELSE pc
  /\ UNCHANGED <<compilerInstance, viewInstance, entryComponent, parserMarksHost, metadata,
                 error, viewRefs, viewRefTree, stack, viewViewRefTree, initQueue,
                 factoryCalls, passes>>

\* a later render pass: update() called on a ViewRef of the rendered tree
Rerender ==
  /\ pc = "done"
  /\ passes < MaxRenderPasses
  /\ \E viewRef \in 1..Len(viewRefs) :
       /\ updateStack' = <<[viewRef |-> viewRef, pc |-> "bindings", pos |-> 0]>>
       /\ log' = log \o <<Event("pass", viewRef), Event("update", viewRef)>>
  /\ passes' = passes + 1
  /\ pc' = "update"
  /\ UNCHANGED <<compilerInstance, viewInstance, entryComponent, parserMarksHost, metadata,
                 error, viewRefs, viewRefTree, stack, viewViewRefTree, initQueue,
                 factoryCalls>>

(***************************************************************************)
(* Specification                                                           *)
(***************************************************************************)
Next ==
  \/ CompilerGetInstance
  \/ ViewGetInstance
  \/ BootstrapStart
  \/ CompileCreate
  \/ CompileParse
  \/ CompileGraft
  \/ CompileBind
  \/ CompileVisit
  \/ CompileMark
  \/ CompileReturn
  \/ BootstrapAssign
  \/ BootstrapInit
  \/ BootstrapUpdate
  \/ UpdateBindings
  \/ UpdateChildren
  \/ UpdateReturn
  \/ Rerender

Spec == Init /\ [][Next]_vars

\* The singletons alone, asked for by any callers in any order.
SingletonNext ==
  \/ CompilerGetInstanceAny
  \/ ViewGetInstanceAny

SingletonSpec == Init /\ [][SingletonNext]_vars

\* Execution is synchronous: a call that can take its next step takes it.
FairSpec == Spec /\ WF_vars(Next)

(***************************************************************************)
(* Vocabulary of the properties                                            *)
(***************************************************************************)
ViewRefIds == 1..Len(viewRefs)
NodesOf(viewRef) == 1..Len(viewRefs[viewRef].nodesTree)
NodeData(viewRef, node) == viewRefs[viewRef].nodesTree[node].data

\* compile has returned a tree to bootstrap
CompileReturned ==
  \/ pc = "compile" /\ stack = <<>>
  \/ pc \in {"init", "update", "done"}

\* The parent of a ViewRef in the shared ViewRef tree, NoViewRef for the root
\* and for a ViewRef that is not in the tree.
ParentOf(viewRef) ==
  LET node == TreeFind(viewRefTree, viewRef)
  IN  IF node = 0 \/ viewRefTree[node].parent = 0 THEN NoViewRef
      ELSE viewRefTree[viewRefTree[node].parent].data

\* Positions of an event in the history.
At(op, viewRef) == { i \in 1..Len(log) : log[i] = Event(op, viewRef) }
AtOp(op) == { i \in 1..Len(log) : log[i].op = op }

\* A non-root ViewNode that carries a component selector.
Placeholders(viewRef) ==
  { n \in NodesOf(viewRef) :
      /\ ~isRoot(viewRefs[viewRef].nodesTree, n)
      /\ NodeData(viewRef, n).componentSelector # NoSelector }

RECURSIVE SumOver(_, _)
SumOver(f, S) ==
  IF S = {} THEN 0
  ELSE LET x == CHOOSE y \in S : TRUE IN f[x] + SumOver(f, S \ {x})

(***************************************************************************)
(* C1                                                                      *)
(***************************************************************************)
\* C1 (as stated): once compile has returned, every ViewNode of every ViewRef
\* that carries a componentSelector, root nodes included, has a viewRef.
C1_EverySelectorNodeHasViewRef ==
  CompileReturned =>
    \A v \in ViewRefIds : \A n \in NodesOf(v) :
      NodeData(v, n).componentSelector # NoSelector => NodeData(v, n).viewRef # NoViewRef

\* C1 (amended): once compile has returned, every non-root ViewNode that
\* carries a componentSelector has a viewRef; the root node of a ViewNode tree
\* keeps viewRef null even when it carries a selector.
C1_EveryPlaceholderHasViewRef ==
  CompileReturned =>
    \A v \in ViewRefIds :
      /\ \A n \in Placeholders(v) : NodeData(v, n).viewRef # NoViewRef
      /\ NodeData(v, 1).viewRef = NoViewRef

C1_Witness ==
  /\ CompileReturned
  /\ \E v \in ViewRefIds :
       /\ Placeholders(v) # {}
       /\ NodeData(v, 1).componentSelector # NoSelector

(***************************************************************************)
(* C2                                                                      *)
(***************************************************************************)
\* C2: when an update() begins, init() has been called on every ViewRef of
\* the compiled tree, and no init() is called after an update() has begun.
C2_InitBeforeUpdate ==
  LET inits == AtOp("init")
  IN  \A u \in AtOp("update") :
        /\ \A v \in ViewRefIds : \E i \in inits : log[i].viewRef = v /\ i < u
        /\ \A i \in inits : i < u

C2_Witness ==
  /\ pc = "update"
  /\ Len(viewRefs) >= 3

(***************************************************************************)
(* C3                                                                      *)
(***************************************************************************)
\* C3: once getBySelector has missed for a non-root ViewNode, the compilation
\* is over with UnknownComponentError, the factory has been asked to construct
\* nothing for that selector, and no tree has reached the caller.
C3_UnknownSelectorAbortsAtLookup ==
  AtOp("miss") # {} =>
    /\ pc = "error"
    /\ error = "UnknownComponentError"
    /\ \A i \in 1..Len(factoryCalls) : factoryCalls[i].component # Undefined
    /\ viewViewRefTree = NoTree

(***************************************************************************)
(* C4                                                                      *)
(***************************************************************************)
\* C4: with no entry component registered, bootstrap ends with
\* EntryComponentNotRegisteredError and compile is not called: no
\* _compileViewRef call, no factory call, no ViewRef, no init() or update(),
\* and View.viewRefTree keeps its value.
C4_NoEntryComponentNoCompile ==
  entryComponent = Undefined =>
    /\ pc \in {"idle", "error"}
    /\ pc = "error" => error = "EntryComponentNotRegisteredError"
    /\ stack = <<>>
    /\ factoryCalls = <<>>
    /\ viewRefs = <<>>
    /\ viewRefTree = NoTree
    /\ log = <<>>
    /\ viewViewRefTree = NoTree

C4_Witness ==
  /\ pc = "error"
  /\ error = "EntryComponentNotRegisteredError"

(***************************************************************************)
(* C5                                                                      *)
(***************************************************************************)
\* C5: the compiled flag of a ViewRef never goes from true to false; it has
\* gone from false to true once when it is true and never when it is false;
\* and when compile has returned every ViewRef it created is compiled.
C5_CompiledOnce ==
  /\ [][\A v \in ViewRefIds : viewRefs[v].compiled => viewRefs'[v].compiled]_vars
  /\ [](\A v \in ViewRefIds :
          Cardinality(At("compiled", v)) = IF viewRefs[v].compiled THEN 1 ELSE 0)
  /\ [](CompileReturned => \A v \in ViewRefIds : viewRefs[v].compiled)

C5_Witness ==
  /\ pc = "done"
  /\ passes = MaxRenderPasses
  /\ Len(viewRefs) >= 3
  /\ \A v \in ViewRefIds : viewRefs[v].compiled

(***************************************************************************)
(* C6                                                                      *)
(***************************************************************************)
\* C6: while a ViewRef is compiled, each of its placeholder nodes records a
\* child ViewRef that is in the tree under it and compiled, every descendant
\* of it in the ViewRef tree is compiled, and no _compileViewRef call made on
\* its behalf is still running.
C6_CompiledAfterDescendants ==
  \A v \in ViewRefIds :
    viewRefs[v].compiled =>
      /\ \A n \in Placeholders(v) :
           /\ NodeData(v, n).viewRef # NoViewRef
           /\ ParentOf(NodeData(v, n).viewRef) = v
           /\ viewRefs[NodeData(v, n).viewRef].compiled
      /\ \A d \in ViewRefIds :
           (/\ TreeFind(viewRefTree, d) # 0
            /\ IsAncestor(viewRefTree, TreeFind(viewRefTree, v), TreeFind(viewRefTree, d)))
             => viewRefs[d].compiled
      /\ \A i \in 1..Len(stack) : stack[i].parentViewRef # v

C6_Witness ==
  /\ Compiling
  /\ \E v \in ViewRefIds :
       /\ viewRefs[v].compiled
       /\ Placeholders(v) # {}
  /\ \E w \in ViewRefIds : ~viewRefs[w].compiled

(***************************************************************************)
(* C7                                                                      *)
(***************************************************************************)
\* C7: once compile has returned, each placeholder node n of each ViewRef V
\* records a ViewRef of the component type the registry gives for n's
\* selector, hosted on n's element, a direct child of V, and the only ViewRef
\* hosted on that element; the tree holds every ViewRef once, and their number
\* is 1 plus the number of placeholder nodes.
C7_OneChildPerPlaceholder ==
  CompileReturned =>
    /\ \A v \in ViewRefIds : \A n \in Placeholders(v) :
         LET c == NodeData(v, n).viewRef
         IN  /\ c # NoViewRef
             /\ viewRefs[c].componentRef.type = getBySelector(NodeData(v, n).componentSelector)
             /\ viewRefs[c].componentRef.hostElement = NodeData(v, n).element
             /\ ParentOf(c) = v
             /\ \A w \in ViewRefIds :
                  viewRefs[w].componentRef.hostElement = NodeData(v, n).element => w = c
    /\ Len(viewRefTree) = Len(viewRefs)
    /\ \A v \in ViewRefIds : TreeFind(viewRefTree, v) # 0
    /\ Len(viewRefs) = 1 + SumOver([v \in ViewRefIds |-> Cardinality(Placeholders(v))], ViewRefIds)

C7_Witness ==
  /\ CompileReturned
  /\ Len(viewRefs) >= 4
  /\ \E v \in ViewRefIds : Depth(viewRefTree, TreeFind(viewRefTree, v)) = 2

(***************************************************************************)
(* C8                                                                      *)
(***************************************************************************)
\* The last event of the given kind for viewRef before position i, 0 if none.
RECURSIVE LastBefore(_, _, _)
LastBefore(op, viewRef, i) ==
  IF i <= 1 THEN 0
  ELSE IF log[i - 1] = Event(op, viewRef) THEN i - 1
       ELSE LastBefore(op, viewRef, i - 1)

\* C8: an update() that does not start a render pass is the update() of a
\* child called by its parent: the call comes right after the parent's
\* updateRenderHost on the child, inside the parent's running update(), and
\* after the parent has applied its bindings in that update().
C8_ParentFirstRender ==
  \A i \in AtOp("update") :
    LET c == log[i].viewRef
        p == ParentOf(c)
        u == LastBefore("update", p, i)
    IN  log[i - 1] # Event("pass", c) =>
          /\ p # NoViewRef
          /\ log[i - 1] = Event("updateRenderHost", c)
          /\ u # 0
          /\ LastBefore("bindings", p, i) > u
          /\ LastBefore("updated", p, i) < u

C8_Witness ==
  /\ pc = "done"
  /\ passes = MaxRenderPasses
  /\ \E i \in AtOp("pass") : i > 1 /\ log[i].viewRef # viewViewRefTree[1].data
                             /\ Placeholders(log[i].viewRef) # {}

(***************************************************************************)
(* C9                                                                      *)
(***************************************************************************)
DepthOf(viewRef) == Depth(viewViewRefTree, TreeFind(viewViewRefTree, viewRef))
InitAt(viewRef) == CHOOSE i \in At("init", viewRef) : TRUE

\* C9: init() is never called twice on a ViewRef; once the traversal is over
\* it has been called once on each ViewRef of the tree, on a parent before its
\* children and on every ViewRef of a depth before any of a greater depth.
C9_InitBreadthFirst ==
  /\ \A v \in ViewRefIds : Cardinality(At("init", v)) <= 1
  /\ pc \in {"update", "done"} =>
       /\ \A v \in ViewRefIds : Cardinality(At("init", v)) = 1
       /\ \A v \in ViewRefIds :
            ParentOf(v) # NoViewRef => InitAt(ParentOf(v)) < InitAt(v)
       /\ \A v, w \in ViewRefIds :
            DepthOf(v) < DepthOf(w) => InitAt(v) < InitAt(w)

\* a tree in which the order of creation is not the breadth-first order
C9_Witness ==
  /\ pc = "done"
  /\ \E v, w \in ViewRefIds : v < w /\ DepthOf(v) > DepthOf(w)

(***************************************************************************)
(* C10                                                                     *)
(***************************************************************************)
\* C10: no _compileViewRef call is made for the root node of a ViewNode tree:
\* the hosting node of every call is a non-root node of the caller's tree, its
\* host is not the caller's own host, no root node records a viewRef, and no
\* two ViewRefs are hosted on the same element.
C10_RootNeverRecompiled ==
  /\ \A i \in 1..Len(stack) :
       stack[i].parentViewRef # NoViewRef =>
         /\ stack[i].hostViewNode # 0
         /\ ~isRoot(viewRefs[stack[i].parentViewRef].nodesTree, stack[i].hostViewNode)
         /\ stack[i].host # viewRefs[stack[i].parentViewRef].componentRef.hostElement
  /\ \A v \in ViewRefIds : NodeData(v, 1).viewRef = NoViewRef
  /\ \A v, w \in ViewRefIds :
       viewRefs[v].componentRef.hostElement = viewRefs[w].componentRef.hostElement => v = w

C10_Witness ==
  /\ CompileReturned
  /\ \E c \in ViewRefIds :
       /\ ParentOf(c) # NoViewRef
       /\ NodeData(c, 1).componentSelector # NoSelector
       /\ viewRefs[c].compiled

(***************************************************************************)
(* C11                                                                     *)
(***************************************************************************)
\* C11: the root ViewRef has the host given to compile as its render host from
\* the moment it is in the tree, hence before any child exists; a non-root
\* ViewRef has no render host until an update() of its parent has called
\* updateRenderHost on it, and then it is the element of its hosting node.
C11_RenderHostOnRootOnly ==
  /\ viewRefTree # NoTree =>
       /\ viewRefTree[1].data = 1
       /\ viewRefs[1].renderHost = AppHost
  /\ Len(viewRefs) >= 2 => viewRefTree # NoTree
  /\ \A v \in ViewRefIds :
       v # 1 =>
         IF At("updateRenderHost", v) = {}
         THEN viewRefs[v].renderHost = NoElement
         ELSE /\ pc \in {"update", "done"}
              /\ viewRefs[v].renderHost = viewRefs[v].componentRef.hostElement

C11_Witness ==
  /\ pc = "init"
  /\ Len(viewRefs) >= 3
  /\ viewRefs[1].renderHost = AppHost
  /\ \A v \in ViewRefIds : v # 1 => viewRefs[v].renderHost = NoElement

(***************************************************************************)
(* C12                                                                     *)
(***************************************************************************)
\* C12: bootstrap calls no update() before the init traversal is over; the
\* update() it then calls is on the root of the tree compile returned, after
\* init() of every ViewRef, and until bootstrap has returned it is the only
\* update() that is not a parent's call on a child.
C12_BootstrapUpdatesRootOnce ==
  /\ pc \in {"idle", "compile", "init", "error"} => AtOp("update") = {} /\ AtOp("pass") = {}
  /\ pc \in {"update", "done"} =>
       LET first == CHOOSE i \in AtOp("pass") : \A j \in AtOp("pass") : i <= j
       IN  /\ log[first].viewRef = viewViewRefTree[1].data
           /\ viewViewRefTree = viewRefTree
           /\ isRoot(viewRefTree, TreeFind(viewRefTree, log[first].viewRef))
           /\ initQueue = <<>>
           /\ \A v \in ViewRefIds : \E i \in At("init", v) : i < first
  /\ passes = 1 =>
       /\ Cardinality(AtOp("pass")) = 1
       /\ \A i \in AtOp("update") :
            log[i - 1].op = "pass" \/ log[i - 1] = Event("updateRenderHost", log[i].viewRef)

C12_Witness ==
  /\ pc = "done"
  /\ passes = 1
  /\ Len(viewRefs) >= 3
  /\ \A v \in ViewRefIds : At("update", v) # {}

(***************************************************************************)
(* C13                                                                     *)
(***************************************************************************)
\* The Template AST a ViewRef was compiled from.
AstOf(viewRef) ==
  parse(viewRefs[viewRef].componentRef.template, viewRefs[viewRef].componentRef.hostElement,
        viewRefs[viewRef].componentRef.selector, viewRef)

\* The ViewNode tree of a ViewRef has a node for each node of the AST, under
\* the same parent and among the same siblings in the same order, with the
\* same element and selector and one Binding per raw binding, in order, owned
\* by that node.
MirrorsAst(viewRef) ==
  LET ast == AstOf(viewRef)
      tree == viewRefs[viewRef].nodesTree
  IN  /\ Len(tree) = Len(ast)
      /\ \A i \in 1..Len(ast) :
           /\ tree[i].parent = ast[i].parent
           /\ tree[i].children = ast[i].children
           /\ tree[i].data.element = ast[i].data.element
           /\ tree[i].data.componentSelector = ast[i].data.componentSelector
           /\ Len(tree[i].data.bindings) = Len(ast[i].data.bindings)
           /\ \A k \in 1..Len(ast[i].data.bindings) :
                tree[i].data.bindings[k] =
                  [source |-> ast[i].data.bindings[k], owner |-> ast[i].data.element]

\* _getViewNodes failed: the error left lines 91-97 after a successful create.
ViewNodesFailed ==
  /\ pc = "error"
  /\ error = "TypeError"
  /\ factoryCalls # <<>>
  /\ factoryCalls[Len(factoryCalls)].component # Undefined

\* C13: _getViewNodes gives, for every Template AST it is applied to, a
\* ViewNode tree that mirrors the AST, with the bindings built by the Binding
\* Builder; it fails for none.
C13_ViewNodesMirrorAst ==
  /\ \A v \in ViewRefIds : MirrorsAst(v)
  /\ ~ViewNodesFailed

\* What holds of the code: the trees that are built mirror their AST.
C13_BuiltTreesMirrorAst == \A v \in ViewRefIds : MirrorsAst(v)

(***************************************************************************)
(* C14                                                                     *)
(***************************************************************************)
\* The children of a ViewRef in the ViewRef tree, in the tree's order.
ChildrenOf(viewRef) ==
  LET children == viewRefTree[TreeFind(viewRefTree, viewRef)].children
  IN  [i \in 1..Len(children) |-> viewRefTree[children[i]].data]

\* The ViewRefs recorded on the nodes of a ViewRef's ViewNode tree, in the
\* depth-first pre-order of the nodes.
HostedIn(viewRef) ==
  LET order == traverseDF(viewRefs[viewRef].nodesTree)
      IsSet(x) == x # NoViewRef
  IN  SelectSeq([i \in 1..Len(order) |-> NodeData(viewRef, order[i]).viewRef], IsSet)

\* C14: the children of a ViewRef that are recorded on its nodes are its first
\* children, in the depth-first pre-order of their hosting nodes; when compile
\* has returned they are all its children.  Siblings are created in that
\* order, initialized in that order, and in a render pass that updates a later
\* sibling through the parent the earlier one was updated before it.
C14_SiblingsInHostingOrder ==
  \A v \in ViewRefIds :
    TreeFind(viewRefTree, v) # 0 =>
      LET children == ChildrenOf(v)
          hosted == HostedIn(v)
      IN  /\ Len(hosted) <= Len(children)
          /\ hosted = SubSeq(children, 1, Len(hosted))
          /\ CompileReturned => hosted = children
          /\ \A a, b \in 1..Len(children) :
               a < b =>
                 /\ children[a] < children[b]
                 /\ pc \in {"update", "done"} => InitAt(children[a]) < InitAt(children[b])
                 /\ \A i \in At("update", children[b]) :
                      log[i - 1].op # "pass" =>
                        \E j \in At("update", children[a]) :
                          /\ j < i
                          /\ \A k \in AtOp("pass") : ~(j < k /\ k < i)

C14_Witness ==
  /\ pc = "done"
  /\ \E v \in ViewRefIds :
       /\ Len(ChildrenOf(v)) = 2
       /\ At("update", ChildrenOf(v)[2]) # {}

(***************************************************************************)
(* C15                                                                     *)
(***************************************************************************)
\* The component types a component's template places on its (non-root) elements.
EmbeddedIn(type) ==
  { getBySelector(metadata[type].template.elements[i].componentSelector) :
      i \in { k \in 1..Len(metadata[type].template.elements) :
                metadata[type].template.elements[k].componentSelector # NoSelector } }
    \cap ComponentTypes

RECURSIVE ReachableIn(_, _)
\* The types reached from the given ones in at most n steps of EmbeddedIn.
ReachableIn(types, n) ==
  IF n = 0 THEN types
  ELSE ReachableIn(types \cup UNION { EmbeddedIn(t) : t \in types }, n - 1)

\* Some component type is reachable from itself.
Cyclic ==
  \E t \in ComponentTypes : t \in ReachableIn(EmbeddedIn(t), Cardinality(ComponentTypes))

CompileOver == CompileReturned \/ pc = "error"

\* C15: a compilation that has begun ends (by returning or with an error)
\* unless the component graph has a cycle; a compilation over a cyclic graph
\* never returns; and the tree that is returned has one root, the ViewRef of
\* the entry component, and holds every ViewRef that was created.
C15_TerminatesIfAcyclic ==
  /\ Compiling ~> (CompileOver \/ Cyclic)
  /\ [](CompileReturned =>
          /\ ~Cyclic
          /\ viewRefTree # NoTree
          /\ viewRefs[viewRefTree[1].data].componentRef.type = entryComponent
          /\ \A i \in 1..Len(viewRefTree) : viewRefTree[i].parent = 0 <=> i = 1
          /\ Len(viewRefTree) = Len(viewRefs))

C15_Witness ==
  /\ CompileReturned
  /\ ~Cyclic
  /\ Len(viewRefs) >= 5
  /\ \A t \in ComponentTypes : metadata[t].read

(***************************************************************************)
(* C16                                                                     *)
(***************************************************************************)
\* The factory could not resolve the dependencies of a component it was asked for.
ConstructionFailed ==
  \E t \in ComponentTypes : metadata[t].read /\ ~metadata[t].resolvable

\* C16: once the construction of a component has failed, bootstrap is over
\* with DependencyResolutionError: no _compileViewRef call is running,
\* View.viewRefTree has not been assigned, and no init() and no update() has
\* been or will be called; and that error has no other origin.
C16_ConstructionFailurePropagates ==
  /\ ConstructionFailed =>
       /\ pc = "error"
       /\ error = "DependencyResolutionError"
       /\ stack = <<>>
       /\ viewViewRefTree = NoTree
       /\ initQueue = <<>>
       /\ updateStack = <<>>
       /\ AtOp("init") = {}
       /\ AtOp("update") = {}
  /\ error = "DependencyResolutionError" => ConstructionFailed

\* the failure of a nested component, with part of the tree already built
C16_Witness ==
  /\ error = "DependencyResolutionError"
  /\ Len(viewRefs) >= 2
  /\ viewRefTree # NoTree
  /\ Len(factoryCalls) >= 3

(***************************************************************************)
(* C17                                                                     *)
(***************************************************************************)
\* C17: each getInstance constructs on the first call only: once a Compiler
\* or a View exists, no later call of either getInstance, whatever its
\* arguments, replaces it or changes its collaborators; and a View never
\* exists without the Compiler.
C17_FirstCallWins ==
  /\ [](viewInstance # NoView => compilerInstance # NoInstance)
  /\ [][/\ compilerInstance # NoInstance => compilerInstance' = compilerInstance
        /\ viewInstance # NoView => viewInstance' = viewInstance]_vars

\* a Compiler made with one registry and a binding builder, then a View asked
\* for with another registry: the View's constructor got the first Compiler
C17_Witness ==
  /\ compilerInstance # NoInstance
  /\ viewInstance # NoView
  /\ compilerInstance.componentsRegistry # viewInstance.componentsRegistry
  /\ compilerInstance.bindingBuilder # Undefined

(***************************************************************************)
(* C18                                                                     *)
(***************************************************************************)
\* Every node but the first was added under a node added before it, and is
\* listed once among the children of that node.
AddedUnderEarlierNodes(tree) ==
  /\ tree[1].parent = 0
  /\ \A i \in 2..Len(tree) :
       /\ tree[i].parent \in 1..(i - 1)
       /\ Cardinality({k \in 1..Len(tree[tree[i].parent].children) :
                         tree[tree[i].parent].children[k] = i}) = 1

\* C18: no compilation ends in StructuralError: every call that will graft
\* its ViewRef under a parent names a parent that is in the shared tree by
\* then, and every node of the shared tree and of every View Node tree was
\* added under a node already there.
C18_ParentAlwaysPresent ==
  /\ error # "StructuralError"
  /\ \A k \in 1..Len(stack) :
       /\ stack[k].parentViewRef = NoViewRef => k = 1
       /\ (stack[k].parentViewRef # NoViewRef /\ stack[k].pc \in {"create", "parse", "graft"}) =>
            /\ viewRefTree # NoTree
            /\ TreeFind(viewRefTree, stack[k].parentViewRef) # 0
  /\ viewRefTree # NoTree => AddedUnderEarlierNodes(viewRefTree)
  /\ \A v \in ViewRefIds : AddedUnderEarlierNodes(viewRefs[v].nodesTree)

\* a ViewRef grafted under a ViewRef other than the root, and a View Node
\* added under a View Node other than the root of its tree
C18_Witness ==
  /\ viewRefTree # NoTree
  /\ \E i \in 1..Len(viewRefTree) : viewRefTree[i].parent > 1
  /\ \E v \in ViewRefIds :
       \E n \in NodesOf(v) : viewRefs[v].nodesTree[n].parent > 1

(***************************************************************************)
(* C19                                                                     *)
(***************************************************************************)
\* C19: a step of a compilation leaves every existing View Node tree as it
\* is (same nodes, same parents, same children in the same order, same
\* element, selector and bindings), except that the call about to bind sets
\* the viewRef of its hosting node, in its parent's tree, from null to its
\* own ViewRef; so no viewRef is assigned twice.
C19_OnlyHostingNodeChanges ==
  [][pc = "compile" =>
       \A v \in ViewRefIds :
         /\ v \in 1..Len(viewRefs')
         /\ Len(viewRefs'[v].nodesTree) = Len(viewRefs[v].nodesTree)
         /\ \A n \in NodesOf(v) :
              /\ viewRefs'[v].nodesTree[n].parent = viewRefs[v].nodesTree[n].parent
              /\ viewRefs'[v].nodesTree[n].children = viewRefs[v].nodesTree[n].children
              /\ viewRefs'[v].nodesTree[n].data.element = NodeData(v, n).element
              /\ viewRefs'[v].nodesTree[n].data.componentSelector = NodeData(v, n).componentSelector
              /\ viewRefs'[v].nodesTree[n].data.bindings = NodeData(v, n).bindings
              /\ viewRefs'[v].nodesTree[n].data.viewRef # NodeData(v, n).viewRef =>
                   /\ NodeData(v, n).viewRef = NoViewRef
                   /\ Compiling
                   /\ Top.pc = "bind"
                   /\ v = Top.parentViewRef
                   /\ n = Top.hostViewNode
                   /\ viewRefs'[v].nodesTree[n].data.viewRef = Top.viewRef
                   /\ Top.viewRef # NoViewRef]_vars

\* a child has been recorded on its hosting node while another node of the
\* same tree, with the same selector, still waits for its own
C19_Witness ==
  /\ pc = "compile"
  /\ \E v \in ViewRefIds :
       \E n, m \in Placeholders(v) :
         /\ n # m
         /\ NodeData(v, n).componentSelector = NodeData(v, m).componentSelector
         /\ NodeData(v, n).viewRef # NoViewRef
         /\ NodeData(v, m).viewRef = NoViewRef

(***************************************************************************)
(* C20                                                                     *)
(***************************************************************************)
\* C20: in every state, a viewRef recorded on a View Node is in the shared
\* ViewRef tree, as a child of the ViewRef that owns the node; a ViewRef is
\* grafted before it is recorded, and a ViewRef under which a call is running
\* or a child was created had been grafted, and, unless it is the root,
\* recorded, before that child was created.
C20_RecordedIsGraftedChild ==
  /\ \A v \in ViewRefIds :
       \A n \in NodesOf(v) :
         NodeData(v, n).viewRef # NoViewRef =>
           /\ viewRefTree # NoTree
           /\ TreeFind(viewRefTree, NodeData(v, n).viewRef) # 0
           /\ ParentOf(NodeData(v, n).viewRef) = v
  /\ \A c \in ViewRefIds :
       \A r \in At("record", c) : \E g \in At("graft", c) : g < r
  /\ \A k \in 1..Len(stack) :
       stack[k].parentViewRef # NoViewRef =>
         /\ At("graft", stack[k].parentViewRef) # {}
         /\ k > 2 => At("record", stack[k].parentViewRef) # {}
  /\ \A d \in ViewRefIds :
       LET p == ParentOf(d)
       IN  (viewRefTree # NoTree /\ p # NoViewRef) =>
             \A i \in At("new", d) :
               /\ LastBefore("graft", p, i) # 0
               /\ ParentOf(p) # NoViewRef => LastBefore("record", p, i) # 0

\* mid-compilation: a ViewRef two levels down is recorded on its hosting node
\* and is itself not yet compiled
C20_Witness ==
  /\ pc = "compile"
  /\ \E v \in ViewRefIds :
       /\ v # 1
       /\ \E n \in NodesOf(v) :
            /\ NodeData(v, n).viewRef # NoViewRef
            /\ ParentOf(NodeData(v, n).viewRef) = v
            /\ ~viewRefs[NodeData(v, n).viewRef].compiled

====
